---- MODULE Spec2Model ----
(***************************************************************************)
(* Shortest-path algorithms of the repository: dijkstra and its            *)
(* reconstruct_path (Dijkstra.py), bellman_ford (bellman_ford.py),         *)
(* floyd_warshall and its reconstruct_path (floyd_warshall.py).            *)
(*                                                                         *)
(* A behaviour is one run of a caller: it builds an adjacency-list graph   *)
(* edge by edge, calls one of the three algorithms, and, when the call     *)
(* returns, reconstructs one path.  The loops of the algorithms are        *)
(* stepped one iteration at a time.                                        *)
(***************************************************************************)
EXTENDS Integers, Sequences, FiniteSets, TLC

VARIABLES
    graph,   \* the caller's adjacency list: graph[u] = << <<v, w>>, ... >>
    pc,      \* where the run is: "main", "dijkstra", "bellman_ford",
             \* "floyd_warshall", "returned", "raised", "reconstructed"
    alg,     \* the algorithm that was called ("none" while the graph is built)
    source,  \* the source argument of dijkstra / bellman_ford
    dj,      \* locals of dijkstra: dist, prev, heap
    bf,      \* locals of bellman_ford: distances, predecessors, passes, has_negative_cycle
    fw,      \* locals of floyd_warshall: distances, next_vertex, k
    rp,      \* the reconstruct_path call: its arguments and its outcome
    hist     \* history of the dijkstra loop: the last popped entry, and how
             \* often each vertex had its outgoing edges relaxed

vars == <<graph, pc, alg, source, dj, bf, fw, rp, hist>>

-----------------------------------------------------------------------------
(* Bounds of the model *)

\* largest number of vertices of a graph
N == 3
\* largest number of edges of a graph
MaxEdges == 3
\* edge weights range over -NegW .. MaxW
MaxW == 1
NegW == 1

(* Values of the program *)

\* float('inf') / math.inf: larger than every finite distance of the model
Inf == 1000000
\* Python's None, distinct from every vertex 0 .. n-1
None == -1

Weights == (0 - NegW) .. MaxW

\* a frame of a function that is not running
NoFrame == <<>>

-----------------------------------------------------------------------------
(* The graph, as the algorithms read it *)

\* The keys of the dictionary are 0, 1, ..., n-1, in dictionary (insertion) order.

NumVertices(g) == Cardinality(DOMAIN g)

RECURSIVE EdgeCountFrom(_, _)
EdgeCountFrom(g, u) ==
    IF u \notin DOMAIN g THEN 0 ELSE Len(g[u]) + EdgeCountFrom(g, u + 1)

EdgeCount(g) == EdgeCountFrom(g, 0)

\* the caller's contract for dijkstra: no negative edge weight
NonNegative(g) == \A u \in DOMAIN g : \A i \in 1..Len(g[u]) : g[u][i][2] >= 0

-----------------------------------------------------------------------------
(* Dijkstra.py: dijkstra *)

\* tuple comparison of heap entries (distance, node)
TupleLess(a, b) == a[1] < b[1] \/ (a[1] = b[1] /\ a[2] < b[2])

\* heapq.heappush: the heap is kept as the sorted sequence of its entries
RECURSIVE heappush(_, _)
heappush(heap, item) ==
    IF heap = <<>> THEN <<item>>
    ELSE IF TupleLess(item, Head(heap)) THEN <<item>> \o heap
    ELSE <<Head(heap)>> \o heappush(Tail(heap), item)

\* lines 27-32: the locals before the loop
dijkstra_init(g, s) ==
    [dist |-> [node \in DOMAIN g |-> IF node = s THEN 0 ELSE Inf],
     prev |-> [node \in DOMAIN g |-> None],
     heap |-> << <<0, s>> >>]

\* mutant: an entry as good as the recorded distance is discarded too
is_stale_or_current(d_u, dist_u) == d_u >= dist_u

\* mutant: no entry is ever discarded
never_stale(d_u, dist_u) == FALSE

\* line 37: the popped entry is stale
is_stale(d_u, dist_u) == d_u > dist_u

\* mutant: the distance of u is left out of the candidate
alt_without_distance(d_u, weight) == weight

\* line 42
dijkstra_alt(d_u, weight) == d_u + weight

\* line 43
dijkstra_improves(alt, dist_v) == alt < dist_v

\* lines 41-46: relax the outgoing edges of u from the i-th on
RECURSIVE relax_edges(_, _, _, _, _)
relax_edges(st, g, d_u, u, i) ==
    IF i > Len(g[u]) THEN st
    ELSE LET v == g[u][i][1]
             weight == g[u][i][2]
             alt == dijkstra_alt(d_u, weight)
         IN  IF dijkstra_improves(alt, st.dist[v])
             THEN relax_edges([dist |-> [st.dist EXCEPT ![v] = alt],
                               prev |-> [st.prev EXCEPT ![v] = u],
                               heap |-> heappush(st.heap, <<alt, v>>)],
                              g, d_u, u, i + 1)
             ELSE relax_edges(st, g, d_u, u, i + 1)

\* lines 35-46: one iteration of the while loop
dijkstra_iteration(st, g) ==
    LET d_u == Head(st.heap)[1]
        u == Head(st.heap)[2]
        popped == [st EXCEPT !.heap = Tail(st.heap)]
    IN  IF is_stale(d_u, st.dist[u]) THEN popped
        ELSE relax_edges(popped, g, d_u, u, 1)

-----------------------------------------------------------------------------
(* Dijkstra.py: reconstruct_path *)

RECURSIVE Reverse(_)
Reverse(s) == IF s = <<>> THEN <<>> ELSE Append(Reverse(Tail(s)), Head(s))

\* lines 62-66: the backward walk, from `at` with `path` collected so far.
\* The walk visits one more vertex per iteration, so an iteration entered with
\* as many vertices collected as the map has keys repeats a vertex and the
\* loop never exits: the call does not return.
RECURSIVE walk_back(_, _, _)
walk_back(prev_map, at, path) ==
    IF at = None THEN [outcome |-> "returns", path |-> path]
    ELSE IF Len(path) >= Cardinality(DOMAIN prev_map)
         THEN [outcome |-> "diverges", path |-> <<>>]
         ELSE walk_back(prev_map, prev_map[at], Append(path, at))

\* mutant: the collected path is returned whatever its first vertex
path_unchecked(path, s) == path

\* lines 67-71
path_or_empty(path, s) == IF path[1] = s THEN path ELSE <<>>

\* lines 62-71
dijkstra_reconstruct_path(prev_map, s, target) ==
    LET walk == walk_back(prev_map, target, <<>>)
    IN  IF walk.outcome = "returns"
        THEN [outcome |-> "returns", path |-> path_or_empty(Reverse(walk.path), s)]
        ELSE walk

-----------------------------------------------------------------------------
(* bellman_ford.py: bellman_ford *)

\* lines 23-25
bellman_ford_init(g, s) ==
    [distances |-> [vertex \in DOMAIN g |-> IF vertex = s THEN 0 ELSE Inf],
     predecessors |-> [vertex \in DOMAIN g |-> None],
     passes |-> 0,
     has_negative_cycle |-> FALSE]

\* mutant: an edge that only ties the recorded distance is relaxed too
can_relax_or_tie(d_u, weight, d_v) == d_u # Inf /\ d_u + weight <= d_v

\* line 31: the edge of weight `weight` from a vertex at distance d_u improves
\* the distance d_v of its head
can_relax(d_u, weight, d_v) == d_u # Inf /\ d_u + weight < d_v

\* mutant: the distance of the tail is left out of the new distance
relaxed_distance_of_edge(d_u, weight) == weight

\* line 32: the new distance of the head
relaxed_distance(d_u, weight) == d_u + weight

\* mutant: the checking pass takes a tie for an improvement
still_relaxes_or_tie(d_u, weight, d_v) == d_u # Inf /\ d_u + weight <= d_v

\* line 38: the same test, in the checking pass
still_relaxes(d_u, weight, d_v) == d_u # Inf /\ d_u + weight < d_v

\* lines 29-33: one pass over all edges, in place, from the i-th edge of u on
RECURSIVE relax_pass(_, _, _, _)
relax_pass(st, g, u, i) ==
    IF u \notin DOMAIN g THEN st
    ELSE IF i > Len(g[u]) THEN relax_pass(st, g, u + 1, 1)
    ELSE LET v == g[u][i][1]
             weight == g[u][i][2]
         IN  IF can_relax(st.distances[u], weight, st.distances[v])
             THEN relax_pass([st EXCEPT !.distances[v] =
                                            relaxed_distance(st.distances[u], weight),
                                        !.predecessors[v] = u],
                             g, u, i + 1)
             ELSE relax_pass(st, g, u, i + 1)

\* line 28: the number of passes
num_passes(g) == Cardinality(DOMAIN g) - 1

\* lines 28-33: the passes that remain
RECURSIVE remaining_passes(_, _)
remaining_passes(st, g) ==
    IF st.passes < num_passes(g)
    THEN remaining_passes([relax_pass(st, g, 0, 1) EXCEPT !.passes = st.passes + 1], g)
    ELSE st

\* lines 36-41: the value of the flag
negative_cycle_check(distances, g) ==
    \E u \in DOMAIN g : \E i \in 1..Len(g[u]) :
        still_relaxes(distances[u], g[u][i][2], distances[g[u][i][1]])

\* lines 23-41: the whole call
bellman_ford(g, s) ==
    LET st == remaining_passes(bellman_ford_init(g, s), g)
    IN  [st EXCEPT !.has_negative_cycle = negative_cycle_check(st.distances, g)]

-----------------------------------------------------------------------------
(* floyd_warshall.py: floyd_warshall *)

\* the caller's matrix for an adjacency list: the weight of the edge i -> j,
\* the smallest one of parallel edges, float('inf') where there is no edge
RECURSIVE MinWeightTo(_, _)
MinWeightTo(edges, j) ==
    IF edges = <<>> THEN Inf
    ELSE LET rest == MinWeightTo(Tail(edges), j)
         IN  IF Head(edges)[1] = j /\ Head(edges)[2] < rest
             THEN Head(edges)[2] ELSE rest

adjacency_matrix(g) == [i \in DOMAIN g |-> [j \in DOMAIN g |-> MinWeightTo(g[i], j)]]

\* mutant: the diagonal is left as the caller gave it
floyd_warshall_init_keeping_diagonal(matrix) ==
    [distances |-> matrix,
     next_vertex |-> [i \in DOMAIN matrix |-> [j \in DOMAIN matrix |->
                        IF matrix[i][j] # Inf THEN j ELSE None]],
     k |-> 0]

\* lines 15-24
floyd_warshall_init(matrix) ==
    [distances |-> [i \in DOMAIN matrix |-> [j \in DOMAIN matrix |->
                        IF i = j THEN 0 ELSE matrix[i][j]]],
     next_vertex |-> [i \in DOMAIN matrix |-> [j \in DOMAIN matrix |->
                        IF i = j THEN i
                        ELSE IF matrix[i][j] # Inf THEN j ELSE None]],
     k |-> 0]

\* lines 31-32
shorter_through(d_ik, d_kj, d_ij) == d_ik # Inf /\ d_kj # Inf /\ d_ij > d_ik + d_kj

\* lines 28-34: the loops over i and j for one k, in place, from (i, j) on
RECURSIVE through_k(_, _, _, _)
through_k(st, k, i, j) ==
    IF i \notin DOMAIN st.distances THEN st
    ELSE IF j \notin DOMAIN st.distances THEN through_k(st, k, i + 1, 0)
    ELSE IF shorter_through(st.distances[i][k], st.distances[k][j], st.distances[i][j])
         THEN through_k([st EXCEPT
                            !.distances[i][j] = st.distances[i][k] + st.distances[k][j],
                            !.next_vertex[i][j] = st.next_vertex[i][k]],
                        k, i, j + 1)
         ELSE through_k(st, k, i, j + 1)

\* lines 37-39
diagonal_negative(distances) == \E i \in DOMAIN distances : distances[i][i] < 0

(* floyd_warshall.py: reconstruct_path *)

\* lines 58-63: the forward walk.  next_vertex[None] raises a TypeError; a walk
\* longer than the number of vertices repeats a vertex and never exits.
RECURSIVE walk_forward(_, _, _, _)
walk_forward(next_vertex, start, end, path) ==
    IF start = end THEN [outcome |-> "returns", path |-> path]
    ELSE IF next_vertex[start][end] = None
         THEN [outcome |-> "raises", path |-> <<>>]
         ELSE IF Len(path) > Cardinality(DOMAIN next_vertex)
              THEN [outcome |-> "diverges", path |-> <<>>]
              ELSE walk_forward(next_vertex, next_vertex[start][end], end,
                                Append(path, next_vertex[start][end]))

\* mutant: the walk starts without the test for a missing next hop
floyd_reconstruct_path_unguarded(next_vertex, start, end) ==
    walk_forward(next_vertex, start, end, <<start>>)

\* lines 55-63
floyd_reconstruct_path(next_vertex, start, end) ==
    IF next_vertex[start][end] = None
    THEN [outcome |-> "returns", path |-> <<>>]
    ELSE walk_forward(next_vertex, start, end, <<start>>)

-----------------------------------------------------------------------------
(* The caller *)

Init ==
    /\ \E n \in 1..N : graph = [u \in 0..(n - 1) |-> <<>>]
    /\ pc = "main"
    /\ alg = "none"
    /\ source = None
    /\ dj = NoFrame
    /\ bf = NoFrame
    /\ fw = NoFrame
    /\ rp = NoFrame
    /\ hist = NoFrame

\* the caller adds the edge u -> v of weight w to the graph literal; the
\* adjacency lists are written in dictionary order
AddEdge(u, v, w) ==
    /\ pc = "main"
    /\ EdgeCount(graph) < MaxEdges
    /\ \A x \in DOMAIN graph : x > u => graph[x] = <<>>
    /\ graph' = [graph EXCEPT ![u] = Append(@, <<v, w>>)]
    /\ UNCHANGED <<pc, alg, source, dj, bf, fw, rp, hist>>

BuildGraph ==
    \E u \in DOMAIN graph, v \in DOMAIN graph, w \in Weights : AddEdge(u, v, w)

\* dist, prev = dijkstra(graph, source), up to the first test of the loop.
\* The caller keeps dijkstra's contract: it passes no negative weight (with a
\* negative cycle the loop would push ever smaller entries and never end).
CallDijkstra(s) ==
    /\ pc = "main"
    /\ NonNegative(graph)
    /\ pc' = "dijkstra"
    /\ alg' = "dijkstra"
    /\ source' = s
    /\ dj' = dijkstra_init(graph, s)
    /\ hist' = [popped |-> <<>>, relaxed |-> [node \in DOMAIN graph |-> 0]]
    /\ UNCHANGED <<graph, bf, fw, rp>>

\* an iteration that pops a stale entry and continues
DijkstraSkip ==
    /\ pc = "dijkstra"
    /\ dj.heap # <<>>
    /\ is_stale(Head(dj.heap)[1], dj.dist[Head(dj.heap)[2]])
    /\ dj' = dijkstra_iteration(dj, graph)
    /\ hist' = [hist EXCEPT !.popped = Head(dj.heap)]
    /\ UNCHANGED <<graph, pc, alg, source, bf, fw, rp>>

\* an iteration that pops a current entry and relaxes the edges of its node
DijkstraRelax ==
    /\ pc = "dijkstra"
    /\ dj.heap # <<>>
    /\ ~is_stale(Head(dj.heap)[1], dj.dist[Head(dj.heap)[2]])
    /\ dj' = dijkstra_iteration(dj, graph)
    /\ hist' = [popped |-> Head(dj.heap),
                relaxed |-> [hist.relaxed EXCEPT ![Head(dj.heap)[2]] = @ + 1]]
    /\ UNCHANGED <<graph, pc, alg, source, bf, fw, rp>>

\* the heap is empty: return dist, prev
DijkstraReturn ==
    /\ pc = "dijkstra"
    /\ dj.heap = <<>>
    /\ pc' = "returned"
    /\ UNCHANGED <<graph, alg, source, dj, bf, fw, rp, hist>>

\* distances, predecessors, flag = bellman_ford(graph, source), up to the loops
CallBellmanFord(s) ==
    /\ pc = "main"
    /\ pc' = "bellman_ford"
    /\ alg' = "bellman_ford"
    /\ source' = s
    /\ bf' = bellman_ford_init(graph, s)
    /\ UNCHANGED <<graph, dj, fw, rp, hist>>

\* one iteration of `for _ in range(len(graph) - 1)`
BellmanFordPass ==
    /\ pc = "bellman_ford"
    /\ bf.passes < num_passes(graph)
    /\ bf' = [relax_pass(bf, graph, 0, 1) EXCEPT !.passes = bf.passes + 1]
    /\ UNCHANGED <<graph, pc, alg, source, dj, fw, rp, hist>>

\* the pass that checks for a negative cycle, and the return
BellmanFordReturn ==
    /\ pc = "bellman_ford"
    /\ bf.passes = num_passes(graph)
    /\ bf' = [bf EXCEPT !.has_negative_cycle = negative_cycle_check(bf.distances, graph)]
    /\ pc' = "returned"
    /\ UNCHANGED <<graph, alg, source, dj, fw, rp, hist>>

\* floyd_warshall(matrix) for the matrix of the graph, up to the main loop
CallFloydWarshall ==
    /\ pc = "main"
    /\ pc' = "floyd_warshall"
    /\ alg' = "floyd_warshall"
    /\ fw' = floyd_warshall_init(adjacency_matrix(graph))
    /\ UNCHANGED <<graph, source, dj, bf, rp, hist>>

\* one iteration of `for k in range(n)`
FloydWarshallStep ==
    /\ pc = "floyd_warshall"
    /\ fw.k < NumVertices(graph)
    /\ fw' = [through_k(fw, fw.k, 0, 0) EXCEPT !.k = fw.k + 1]
    /\ UNCHANGED <<graph, pc, alg, source, dj, bf, rp, hist>>

\* the diagonal check finds a negative entry: ValueError, nothing is returned
FloydWarshallRaise ==
    /\ pc = "floyd_warshall"
    /\ fw.k = NumVertices(graph)
    /\ diagonal_negative(fw.distances)
    /\ pc' = "raised"
    /\ fw' = NoFrame
    /\ UNCHANGED <<graph, alg, source, dj, bf, rp, hist>>

\* the diagonal check passes: return distances, next_vertex
FloydWarshallReturn ==
    /\ pc = "floyd_warshall"
    /\ fw.k = NumVertices(graph)
    /\ ~diagonal_negative(fw.distances)
    /\ pc' = "returned"
    /\ UNCHANGED <<graph, alg, source, dj, bf, fw, rp, hist>>

\* the predecessor map the single-source call returned
ReturnedPrev == IF alg = "dijkstra" THEN dj.prev ELSE bf.predecessors

\* the distance map the single-source call returned
ReturnedDist == IF alg = "dijkstra" THEN dj.dist ELSE bf.distances

\* Dijkstra.reconstruct_path(prev, source, target)
ReconstructPath(target) ==
    /\ pc = "returned"
    /\ alg \in {"dijkstra", "bellman_ford"}
    /\ pc' = "reconstructed"
    /\ rp' = [start |-> source, end |-> target]
             @@ dijkstra_reconstruct_path(ReturnedPrev, source, target)
    /\ UNCHANGED <<graph, alg, source, dj, bf, fw, hist>>

\* floyd_warshall.reconstruct_path(next_vertex, start, end)
FloydReconstructPath(start, end) ==
    /\ pc = "returned"
    /\ alg = "floyd_warshall"
    /\ pc' = "reconstructed"
    /\ rp' = [start |-> start, end |-> end]
             @@ floyd_reconstruct_path(fw.next_vertex, start, end)
    /\ UNCHANGED <<graph, alg, source, dj, bf, fw, hist>>

Next ==
    \/ BuildGraph
    \/ \E s \in DOMAIN graph : CallDijkstra(s)
    \/ DijkstraSkip
    \/ DijkstraRelax
    \/ DijkstraReturn
    \/ \E s \in DOMAIN graph : CallBellmanFord(s)
    \/ BellmanFordPass
    \/ BellmanFordReturn
    \/ CallFloydWarshall
    \/ FloydWarshallStep
    \/ FloydWarshallRaise
    \/ FloydWarshallReturn
    \/ \E target \in DOMAIN graph : ReconstructPath(target)
    \/ \E start \in DOMAIN graph, end \in DOMAIN graph : FloydReconstructPath(start, end)

Spec == Init /\ [][Next]_vars

\* The caller builds a graph and calls dijkstra.  The call is a sequential
\* loop: whenever an iteration or the return is possible, it is taken.
DijkstraLoop == DijkstraSkip \/ DijkstraRelax \/ DijkstraReturn

NextDijkstra ==
    \/ BuildGraph
    \/ \E s \in DOMAIN graph : CallDijkstra(s)
    \/ DijkstraSkip
    \/ DijkstraRelax
    \/ DijkstraReturn

SpecDijkstra == Init /\ [][NextDijkstra]_vars /\ WF_vars(DijkstraLoop)

-----------------------------------------------------------------------------
(* Paths and cycles of a graph, by enumeration: what the results are compared with *)

\* the vertices on a path
Vertices(p) == {p[a] : a \in DOMAIN p}

\* the given paths and all their extensions by at most `more` edges of m to
\* vertices not yet on the path
RECURSIVE Extensions(_, _, _)
Extensions(m, paths, more) ==
    IF more = 0 \/ paths = {} THEN paths
    ELSE paths \cup
         Extensions(m,
                    {Append(x[1], x[2]) :
                        x \in {y \in paths \X DOMAIN m :
                                  /\ m[y[1][Len(y[1])]][y[2]] # Inf
                                  /\ y[2] \notin Vertices(y[1])}},
                    more - 1)

\* the simple paths of g that start at s: sequences of distinct vertices along edges
SimplePathsFrom(g, s) == Extensions(adjacency_matrix(g), {<<s>>}, NumVertices(g) - 1)

\* the simple paths of g
SimplePaths(g) == UNION {SimplePathsFrom(g, s) : s \in DOMAIN g}

\* total weight of a walk, each step at the weight m gives it
RECURSIVE WalkWeight(_, _)
WalkWeight(m, p) ==
    IF Len(p) <= 1 THEN 0 ELSE m[p[1]][p[2]] + WalkWeight(m, Tail(p))

PathsBetween(g, s, v) == {p \in SimplePathsFrom(g, s) : p[Len(p)] = v}

Reachable(g, s, v) == PathsBetween(g, s, v) # {}

SetMin(S) == CHOOSE x \in S : \A y \in S : x <= y

\* minimum total weight over the simple paths from s to v, float('inf') if none
ShortestDistance(g, s, v) ==
    IF Reachable(g, s, v)
    THEN SetMin({WalkWeight(adjacency_matrix(g), p) : p \in PathsBetween(g, s, v)})
    ELSE Inf

\* the simple cycles of negative total weight, a self-loop being a cycle of one vertex
NegativeCycles(g) ==
    LET m == adjacency_matrix(g)
    IN  {p \in SimplePaths(g) :
            /\ m[p[Len(p)]][p[1]] # Inf
            /\ WalkWeight(m, p) + m[p[Len(p)]][p[1]] < 0}

HasNegativeCycle(g) == NegativeCycles(g) # {}

NegativeCycleReachable(g, s) == \E p \in NegativeCycles(g) : Reachable(g, s, p[1])

Returned == pc \in {"returned", "reconstructed"}

-----------------------------------------------------------------------------
(* Claims *)

\* C1: with non-negative weights (zero weights, self-loops and parallel edges
\* included), dijkstra returns for every vertex v the minimum total weight over
\* all paths from the source to v, and infinity exactly when v is unreachable.
C1_DijkstraShortest ==
    (alg = "dijkstra" /\ Returned) =>
        \A v \in DOMAIN graph :
            /\ dj.dist[v] = ShortestDistance(graph, source, v)
            /\ (dj.dist[v] = Inf) <=> ~Reachable(graph, source, v)

\* a returned call in which a two-edge path beat the direct edge to a vertex
\* and another vertex stayed unreachable
C1_Witness ==
    /\ alg = "dijkstra" /\ pc = "returned"
    /\ \E v \in DOMAIN graph :
          /\ dj.prev[v] \notin {None, source}
          /\ adjacency_matrix(graph)[source][v] # Inf
          /\ dj.dist[v] < adjacency_matrix(graph)[source][v]

\* C2: the flag bellman_ford returns is True if and only if a cycle of negative
\* total weight is reachable from the source.
C2_FlagIffReachableNegativeCycle ==
    (alg = "bellman_ford" /\ Returned) =>
        (bf.has_negative_cycle <=> NegativeCycleReachable(graph, source))

\* the flag is False although the graph has a negative cycle (unreachable)
C2_Witness ==
    /\ alg = "bellman_ford" /\ pc = "returned"
    /\ ~bf.has_negative_cycle
    /\ HasNegativeCycle(graph)

\* C3: when the flag is False, after exactly |V|-1 passes, distances[v] is the
\* minimum total weight over all paths from the source to v, or infinity if
\* v is unreachable.
C3_BellmanFordShortest ==
    (alg = "bellman_ford" /\ Returned /\ ~bf.has_negative_cycle) =>
        /\ bf.passes = NumVertices(graph) - 1
        /\ \A v \in DOMAIN graph :
              bf.distances[v] = ShortestDistance(graph, source, v)

\* a returned call with flag False and a vertex at negative distance
C3_Witness ==
    /\ alg = "bellman_ford" /\ pc = "returned"
    /\ ~bf.has_negative_cycle
    /\ \E v \in DOMAIN graph : bf.distances[v] < 0 /\ bf.predecessors[v] # source

\* C4: floyd_warshall raises the negative-cycle error exactly when the graph of
\* the input matrix has a cycle of negative total weight, a negative entry on
\* the input diagonal counting as a negative cycle of one vertex.
C4_RaisesIffNegativeCycle ==
    (alg = "floyd_warshall" /\ pc \in {"raised", "returned"}) =>
        (pc = "raised" <=> HasNegativeCycle(graph))

\* C5: for a graph without a negative cycle, distances[i][j] of floyd_warshall
\* equals distances[j] of bellman_ford run with source i, for all i and j.
C5_FloydAgreesWithBellmanFord ==
    (alg = "floyd_warshall" /\ Returned /\ ~HasNegativeCycle(graph)) =>
        \A i \in DOMAIN graph : \A j \in DOMAIN graph :
            fw.distances[i][j] = bellman_ford(graph, i).distances[j]

\* a returned call with a negative distance over an intermediate vertex and
\* an unreachable pair
C5_Witness ==
    /\ alg = "floyd_warshall" /\ pc = "returned"
    /\ ~HasNegativeCycle(graph)
    /\ \E i \in DOMAIN graph : \E j \in DOMAIN graph :
          fw.next_vertex[i][j] \notin {None, j} /\ fw.distances[i][j] < 0
    /\ \E i \in DOMAIN graph : \E j \in DOMAIN graph : fw.distances[i][j] = Inf

\* the call whose maps the reconstruction read is within its contract's
\* guarantee: bellman_ford reported no negative cycle
NoCycleReported == alg = "bellman_ford" => ~bf.has_negative_cycle

\* the distance the algorithm reported for the reconstructed pair
ReportedDistance ==
    IF alg = "floyd_warshall" THEN fw.distances[rp.start][rp.end]
    ELSE ReturnedDist[rp.end]

\* the predecessor or next-hop entry of the reconstructed pair
ReportedLink ==
    IF alg = "floyd_warshall" THEN fw.next_vertex[rp.start][rp.end]
    ELSE ReturnedPrev[rp.end]

\* C6: a non-empty reconstructed path starts at the source, ends at the target,
\* follows edges of the input graph, and its weights sum to the reported
\* shortest distance (dijkstra; bellman_ford with flag False; floyd_warshall
\* that returned normally).
C6_PathRoundTrip ==
    (pc = "reconstructed" /\ NoCycleReported
        /\ rp.outcome = "returns" /\ rp.path # <<>>) =>
        /\ rp.path[1] = rp.start
        /\ rp.path[Len(rp.path)] = rp.end
        /\ \A a \in 1..(Len(rp.path) - 1) :
              adjacency_matrix(graph)[rp.path[a]][rp.path[a + 1]] # Inf
        /\ WalkWeight(adjacency_matrix(graph), rp.path) = ReportedDistance

\* a floyd_warshall path of three vertices with negative total weight
C6_Witness ==
    /\ pc = "reconstructed" /\ alg = "floyd_warshall"
    /\ rp.outcome = "returns" /\ Len(rp.path) = 3
    /\ fw.distances[rp.start][rp.end] < 0

\* C7 as stated: for an unreachable target the distance stays infinity, the
\* predecessor / next-hop entry stays None and reconstruction returns the
\* empty list; for a reachable target reconstruction returns a non-empty list.
C7_EmptyIffUnreachable ==
    (pc = "reconstructed") =>
        IF Reachable(graph, rp.start, rp.end)
        THEN rp.outcome = "returns" /\ rp.path # <<>>
        ELSE /\ ReportedDistance = Inf
             /\ ReportedLink = None
             /\ rp.outcome = "returns" /\ rp.path = <<>>

\* C7 amended: the same, the reachable case only for calls other than a
\* bellman_ford call that reported a negative cycle.
C7_EmptyIffUnreachableNoCycle ==
    (pc = "reconstructed") =>
        IF Reachable(graph, rp.start, rp.end)
        THEN NoCycleReported => (rp.outcome = "returns" /\ rp.path # <<>>)
        ELSE /\ ReportedDistance = Inf
             /\ ReportedLink = None
             /\ rp.outcome = "returns" /\ rp.path = <<>>

\* an unreachable target with incoming edges, reconstructed to the empty list
C7_Witness ==
    /\ pc = "reconstructed" /\ alg = "bellman_ford"
    /\ ~Reachable(graph, rp.start, rp.end)
    /\ \E u \in DOMAIN graph : adjacency_matrix(graph)[u][rp.end] # Inf
    /\ rp.path = <<>>

\* C8: without a negative cycle both walks terminate: the backward walk from
\* every target reaches None (no cycle of predecessor links, prev[source] is
\* None), and the forward walk from every start with a next-hop to the end
\* reaches the end without reading None.
C8_WalksTerminate ==
    /\ (pc = "reconstructed" /\ NoCycleReported) => rp.outcome = "returns"
    /\ (Returned /\ alg \in {"dijkstra", "bellman_ford"} /\ NoCycleReported) =>
          /\ ReturnedPrev[source] = None
          /\ \A target \in DOMAIN graph :
                walk_back(ReturnedPrev, target, <<>>).outcome = "returns"
    /\ (Returned /\ alg = "floyd_warshall") =>
          \A start \in DOMAIN graph : \A end \in DOMAIN graph :
              fw.next_vertex[start][end] # None =>
                  walk_forward(fw.next_vertex, start, end, <<start>>).outcome = "returns"

\* a bellman_ford walk over three vertices in a graph with a zero-weight cycle
C8_Witness ==
    /\ pc = "reconstructed" /\ alg = "bellman_ford" /\ ~bf.has_negative_cycle
    /\ rp.outcome = "returns" /\ Len(rp.path) = 3
    /\ \E p \in SimplePaths(graph) :
          /\ adjacency_matrix(graph)[p[Len(p)]][p[1]] # Inf
          /\ WalkWeight(adjacency_matrix(graph), p)
                + adjacency_matrix(graph)[p[Len(p)]][p[1]] = 0

\* C9 as stated: every vertex with a predecessor has a strictly larger
\* distance than its predecessor.
C9_PredecessorStrictlyCloser ==
    (Returned /\ alg \in {"dijkstra", "bellman_ford"} /\ NoCycleReported) =>
        \A v \in DOMAIN graph :
            ReturnedPrev[v] # None => ReturnedDist[ReturnedPrev[v]] < ReturnedDist[v]

\* C9 amended: every vertex v with a predecessor p has distance[v] =
\* distance[p] + w for the smallest weight w of an edge p -> v; so
\* distance[p] < distance[v] exactly when that weight is positive.
C9_PredecessorEdgeTight ==
    (Returned /\ alg \in {"dijkstra", "bellman_ford"} /\ NoCycleReported) =>
        \A v \in DOMAIN graph :
            ReturnedPrev[v] # None =>
                LET w == adjacency_matrix(graph)[ReturnedPrev[v]][v]
                IN  /\ w # Inf
                    /\ ReturnedDist[v] = ReturnedDist[ReturnedPrev[v]] + w
                    /\ (ReturnedDist[ReturnedPrev[v]] < ReturnedDist[v]) <=> (w > 0)

\* a vertex at the distance of its predecessor, which is not the source
C9_Witness ==
    /\ Returned /\ alg = "dijkstra"
    /\ \E v \in DOMAIN graph :
          /\ dj.prev[v] \notin {None, source}
          /\ dj.dist[dj.prev[v]] = dj.dist[v]

\* C10: in a run of dijkstra on non-negative weights, a popped entry (d, u) with
\* d > dist[u] is discarded without relaxing an edge; an entry that is not
\* discarded carries the shortest distance of u and dist[u] never changes
\* afterwards; each vertex has its edges relaxed at most once; the heap empties
\* and the run returns.
C10_LazyDeletion ==
    /\ [][(pc = "dijkstra" /\ dj.heap # <<>>) =>
            LET d_u == Head(dj.heap)[1]
                u == Head(dj.heap)[2]
            IN  IF d_u > dj.dist[u]
                THEN /\ dj'.dist = dj.dist
                     /\ dj'.prev = dj.prev
                     /\ dj'.heap = Tail(dj.heap)
                     /\ hist'.relaxed = hist.relaxed
                ELSE /\ d_u = dj.dist[u]
                     /\ d_u = ShortestDistance(graph, source, u)
                     /\ hist.relaxed[u] = 0
                     /\ hist'.relaxed[u] = 1]_vars
    /\ [][pc = "dijkstra" =>
            \A u \in DOMAIN graph : hist.relaxed[u] > 0 => dj'.dist[u] = dj.dist[u]]_vars
    /\ [](alg = "dijkstra" => \A u \in DOMAIN graph : hist.relaxed[u] <= 1)
    /\ (pc = "dijkstra") ~> (pc = "returned")

\* a run that discarded a stale entry as its last pop and returned
C10_Witness ==
    /\ alg = "dijkstra" /\ pc = "returned"
    /\ hist.popped # <<>>
    /\ hist.popped[1] > dj.dist[hist.popped[2]]

====
